---- MODULE Spec2Model ----
(***************************************************************************)
(* Model of rotor-http's message framing engine (src/message.rs): the      *)
(* MessageState machine that Message drives over an output buffer.         *)
(* Bytes of the buffer are one-character strings.  Spec is the message;    *)
(* SpecParse is Head::parse (src/server/request.rs) applied to one outcome *)
(* of the httparse tokenizer.                                              *)
(***************************************************************************)
EXTENDS Integers, Sequences, FiniteSets, TLC

VARIABLES state, buf, call, hist, raw, parsed

vars == <<state, buf, call, hist, raw, parsed>>

\* ------------------------------------------------------------------ bounds
\* Number of calls made on one message.
MaxCalls == 6
\* Largest Content-Length value a caller declares.
MaxContentLength == 2
\* Longest byte slice handed to Head::parse.
MaxDataLen == 3

\* ------------------------------------------------------------- formatting
CRLF == <<"\r", "\n">>

Digits == <<"0", "1", "2", "3", "4", "5", "6", "7", "8", "9",
            "a", "b", "c", "d", "e", "f">>

\* `{}` of an unsigned integer: decimal digits, no padding.
RECURSIVE FmtDec(_)
FmtDec(n) ==
    IF n < 10 THEN <<Digits[n + 1]>>
    ELSE FmtDec(n \div 10) \o <<Digits[(n % 10) + 1]>>

\* A chunk size written with `{}`, in decimal.
FmtHex_Decimal(n) == FmtDec(n)

\* `{:x}` of an unsigned integer: lowercase hexadecimal digits, no padding.
RECURSIVE FmtHex(_)
FmtHex(n) ==
    IF n < 16 THEN <<Digits[n + 1]>>
    ELSE FmtHex(n \div 16) \o <<Digits[(n % 16) + 1]>>

\* Display of hyper's HttpVersion.
FmtVersion(version) ==
    IF version = "Http11"
    THEN <<"H", "T", "T", "P", "/", "1", ".", "1">>
    ELSE <<"H", "T", "T", "P", "/", "1", ".", "0">>

\* Display of hyper's StatusCode: number, space, canonical reason.
FmtStatus(code) ==
    CASE code = "Ok" -> <<"2", "0", "0", " ", "O", "K">>
      [] code = "SwitchingProtocols" ->
            <<"1", "0", "1", " ", "S", "w", "i", "t", "c", "h", "i", "n", "g",
              " ", "P", "r", "o", "t", "o", "c", "o", "l", "s">>
      [] code = "NoContent" ->
            <<"2", "0", "4", " ", "N", "o", " ", "C", "o", "n", "t", "e", "n", "t">>
      [] code = "NotModified" ->
            <<"3", "0", "4", " ", "N", "o", "t", " ", "M", "o", "d", "i", "f",
              "i", "e", "d">>

\* Display of hyper's Method.
FmtMethod(method) ==
    IF method = "Head" THEN <<"H", "E", "A", "D">> ELSE <<"G", "E", "T">>

\* --------------------------------------------------------------- inputs
Versions == {"Http10", "Http11"}
Bodies == {"Normal", "Ignored", "Denied"}
StatusCodes == {"Ok", "SwitchingProtocols", "NoContent", "NotModified"}
Methods == {"Get", "Head"}
Uris == {<<"/">>}

\* Headers a caller passes to add_header: the two framing headers the code
\* recognises by type, and one header of any other type.
ContentLength(ln) == [kind |-> "ContentLength", ln |-> ln, encodings |-> <<>>]
TransferEncoding(encodings) ==
    [kind |-> "TransferEncoding", ln |-> 0, encodings |-> encodings]
Connection == [kind |-> "Connection", ln |-> 0, encodings |-> <<>>]

HeaderInputs ==
    {ContentLength(n) : n \in 0..MaxContentLength}
    \cup {TransferEncoding(<<"Chunked">>), TransferEncoding(<<"Gzip">>),
          TransferEncoding(<<"Gzip", "Chunked">>), Connection}

\* Byte slices a caller passes to write_body; the longer ones make the chunk
\* size take a letter digit and two digits in hexadecimal.
DataInputs ==
    {<<>>, <<"a">>, <<"0", "\r">>, <<"\n", "0", "\r", "\n">>,
     [i \in 1..10 |-> "x"], [i \in 1..17 |-> "y"]}

\* H::header_name()
HeaderName(h) ==
    CASE h.kind = "ContentLength" ->
            <<"C", "o", "n", "t", "e", "n", "t", "-", "L", "e", "n", "g", "t", "h">>
      [] h.kind = "TransferEncoding" ->
            <<"T", "r", "a", "n", "s", "f", "e", "r", "-", "E", "n", "c", "o",
              "d", "i", "n", "g">>
      [] OTHER -> <<"C", "o", "n", "n", "e", "c", "t", "i", "o", "n">>

FmtEncoding(e) ==
    IF e = "Chunked" THEN <<"c", "h", "u", "n", "k", "e", "d">>
    ELSE <<"g", "z", "i", "p">>

RECURSIVE FmtEncodings(_)
FmtEncodings(es) ==
    IF es = <<>> THEN <<>>
    ELSE IF Len(es) = 1 THEN FmtEncoding(es[1])
    ELSE FmtEncoding(es[1]) \o <<",", " ">> \o FmtEncodings(Tail(es))

\* HeaderFormatter(&header)
HeaderValue(h) ==
    CASE h.kind = "ContentLength" -> FmtDec(h.ln)
      [] h.kind = "TransferEncoding" -> FmtEncodings(h.encodings)
      [] OTHER -> <<"c", "l", "o", "s", "e">>

\* "{}: {}\r\n"
HeaderLine(h) == HeaderName(h) \o <<":", " ">> \o HeaderValue(h) \o CRLF

\* ------------------------------------------------------------ MessageState
ResponseStart(version, body) ==
    [tag |-> "ResponseStart", version |-> version, body |-> body]
RequestStart == [tag |-> "RequestStart"]
Headers(body, chunked, request, content_length) ==
    [tag |-> "Headers", body |-> body, chunked |-> chunked,
     request |-> request, content_length |-> content_length]
ZeroBodyMessage == [tag |-> "ZeroBodyMessage"]
IgnoredBody == [tag |-> "IgnoredBody"]
FixedSizeBody(x) == [tag |-> "FixedSizeBody", x |-> x]
ChunkedBody == [tag |-> "ChunkedBody"]
Done == [tag |-> "Done"]

\* Option<u64>: None is the empty sequence, Some(n) is <<n>>.
None == <<>>
Some(n) == <<n>>

\* The outcome of one call: the value it returns ("panic" when it panics),
\* the MessageState it leaves and the bytes it appends to the buffer.
Outcome(ret, next, out) == [ret |-> ret, state |-> next, out |-> out]
Panic(s) == Outcome("panic", s, <<>>)

\* ------------------------------------------------------------- operations
\* A disposition that lets the status deny a body only when the initial
\* disposition is Normal.
ResponseBody_NormalOnly(code, body) ==
    IF body = "Normal" /\ code \in {"SwitchingProtocols", "NoContent"}
    THEN "Denied"
    ELSE IF body = "Normal" /\ code = "NotModified" THEN "Ignored"
    ELSE body

\* The disposition response_status stores in Headers.
ResponseBody(code, body) ==
    IF code \in {"SwitchingProtocols", "NoContent"} THEN "Denied"
    ELSE IF body = "Normal" /\ code = "NotModified" THEN "Ignored"
    ELSE body

response_status(s, code) ==
    IF s.tag = "ResponseStart"
    THEN Outcome("unit",
                 Headers(ResponseBody(code, s.body), FALSE, FALSE, None),
                 FmtVersion(s.version) \o <<" ">> \o FmtStatus(code) \o CRLF)
    ELSE Panic(s)

\* A request_line that stores the request flag response_status stores.
request_line_ResponseFlag(s, method, uri, version) ==
    IF s.tag = "RequestStart"
    THEN Outcome("unit",
                 Headers("Normal", FALSE, FALSE, None),
                 FmtMethod(method) \o <<" ">> \o uri \o <<" ">>
                     \o FmtVersion(version) \o CRLF)
    ELSE Panic(s)

request_line(s, method, uri, version) ==
    IF s.tag = "RequestStart"
    THEN Outcome("unit",
                 Headers("Normal", FALSE, TRUE, None),
                 FmtMethod(method) \o <<" ">> \o uri \o <<" ">>
                     \o FmtVersion(version) \o CRLF)
    ELSE Panic(s)

\* A length check that records the new length before it looks for a
\* duplicate.
CheckContentLength_RecordFirst(s, h) ==
    IF h.kind = "ContentLength"
    THEN IF s.chunked
         THEN [err |-> "ContentLengthAfterTransferEncoding",
               content_length |-> s.content_length]
         ELSE IF s.content_length # None
         THEN [err |-> "DuplicateContentLength",
               content_length |-> Some(h.ln)]
         ELSE [err |-> "", content_length |-> Some(h.ln)]
    ELSE [err |-> "", content_length |-> s.content_length]

\* A length check that does not look at the chunked flag.
CheckContentLength_NoChunkedCheck(s, h) ==
    IF h.kind = "ContentLength"
    THEN IF s.content_length # None
         THEN [err |-> "DuplicateContentLength",
               content_length |-> s.content_length]
         ELSE [err |-> "", content_length |-> Some(h.ln)]
    ELSE [err |-> "", content_length |-> s.content_length]

\* The ContentLength downcast of add_header: the error it returns, or "" and
\* the content_length it leaves.
CheckContentLength(s, h) ==
    IF h.kind = "ContentLength"
    THEN IF s.chunked
         THEN [err |-> "ContentLengthAfterTransferEncoding",
               content_length |-> s.content_length]
         ELSE IF s.content_length # None
         THEN [err |-> "DuplicateContentLength",
               content_length |-> s.content_length]
         ELSE [err |-> "", content_length |-> Some(h.ln)]
    ELSE [err |-> "", content_length |-> s.content_length]

\* A transfer-encoding check that looks at the recorded framing before it
\* looks at the encoding list.
CheckTransferEncoding_ConflictFirst(s, content_length, h) ==
    IF h.kind = "TransferEncoding"
    THEN IF s.chunked
         THEN [err |-> "DuplicateTransferEncoding", chunked |-> s.chunked]
         ELSE IF content_length # None
         THEN [err |-> "TransferEncodingAfterContentLength",
               chunked |-> s.chunked]
         ELSE IF h.encodings = <<"Chunked">>
         THEN [err |-> "", chunked |-> TRUE]
         ELSE [err |-> "UnknownTransferEncoding", chunked |-> s.chunked]
    ELSE [err |-> "", chunked |-> s.chunked]

\* The TransferEncoding downcast of add_header, run on the content_length
\* the first downcast left: the error it returns, or "" and the chunked flag.
CheckTransferEncoding(s, content_length, h) ==
    IF h.kind = "TransferEncoding"
    THEN IF h.encodings = <<"Chunked">>
         THEN IF s.chunked
              THEN [err |-> "DuplicateTransferEncoding", chunked |-> s.chunked]
              ELSE IF content_length # None
              THEN [err |-> "TransferEncodingAfterContentLength",
                    chunked |-> s.chunked]
              ELSE [err |-> "", chunked |-> TRUE]
         ELSE [err |-> "UnknownTransferEncoding", chunked |-> s.chunked]
    ELSE [err |-> "", chunked |-> s.chunked]

\* The Headers arm of add_header: the two downcasts in order, each returning
\* early on its error, then the header line written to the buffer.
AddHeaderInHeaders(s, h) ==
    LET cl == CheckContentLength(s, h)
        te == CheckTransferEncoding(s, cl.content_length, h)
    IN  IF cl.err # ""
        THEN Outcome(cl.err,
                     Headers(s.body, s.chunked, s.request, cl.content_length),
                     <<>>)
        ELSE IF te.err # ""
        THEN Outcome(te.err,
                     Headers(s.body, te.chunked, s.request, cl.content_length),
                     <<>>)
        ELSE Outcome("Ok",
                     Headers(s.body, te.chunked, s.request, cl.content_length),
                     HeaderLine(h))

\* An add_header that reports a call in the wrong state as a header error.
add_header_ErrInWrongState(s, h) ==
    IF s.tag = "Headers" THEN AddHeaderInHeaders(s, h)
    ELSE Outcome("UnknownTransferEncoding", s, <<>>)

add_header(s, h) ==
    IF s.tag = "Headers" THEN AddHeaderInHeaders(s, h) ELSE Panic(s)

is_started(s) == s.tag \notin {"RequestStart", "ResponseStart"}

\* A resolution that asks a request for a declared framing as it asks a
\* response.
ResolveHeaders_RequestNeedsFraming(s) ==
    CASE s.body = "Ignored" -> [ret |-> "OkFalse", state |-> IgnoredBody]
      [] s.body = "Denied" -> [ret |-> "OkFalse", state |-> ZeroBodyMessage]
      [] s.body = "Normal" /\ s.content_length # None /\ ~s.chunked ->
            [ret |-> "OkTrue", state |-> FixedSizeBody(s.content_length[1])]
      [] s.body = "Normal" /\ s.content_length = None /\ s.chunked ->
            [ret |-> "OkTrue", state |-> ChunkedBody]
      [] s.body = "Normal" /\ s.content_length # None /\ s.chunked ->
            [ret |-> "panic", state |-> s]
      [] s.body = "Normal" /\ s.content_length = None /\ ~s.chunked ->
            [ret |-> "CantDetermineBodySize", state |-> s]

\* A resolution that looks at the declared framing before the disposition.
ResolveHeaders_FramingFirst(s) ==
    CASE s.content_length # None /\ ~s.chunked ->
            [ret |-> "OkTrue", state |-> FixedSizeBody(s.content_length[1])]
      [] s.content_length = None /\ s.chunked ->
            [ret |-> "OkTrue", state |-> ChunkedBody]
      [] s.content_length # None /\ s.chunked ->
            [ret |-> "panic", state |-> s]
      [] s.body = "Ignored" -> [ret |-> "OkFalse", state |-> IgnoredBody]
      [] s.body = "Denied" -> [ret |-> "OkFalse", state |-> ZeroBodyMessage]
      [] s.request -> [ret |-> "OkFalse", state |-> ZeroBodyMessage]
      [] OTHER -> [ret |-> "CantDetermineBodySize", state |-> s]

\* A resolution that gives up the headers when it cannot determine the body
\* size.
ResolveHeaders_ErrToZeroBody(s) ==
    CASE s.body = "Ignored" -> [ret |-> "OkFalse", state |-> IgnoredBody]
      [] s.body = "Denied" -> [ret |-> "OkFalse", state |-> ZeroBodyMessage]
      [] s.body = "Normal" /\ s.content_length # None /\ ~s.chunked ->
            [ret |-> "OkTrue", state |-> FixedSizeBody(s.content_length[1])]
      [] s.body = "Normal" /\ s.content_length = None /\ s.chunked ->
            [ret |-> "OkTrue", state |-> ChunkedBody]
      [] s.body = "Normal" /\ s.content_length # None /\ s.chunked ->
            [ret |-> "panic", state |-> s]
      [] s.body = "Normal" /\ s.content_length = None /\ ~s.chunked
            /\ s.request ->
            [ret |-> "OkFalse", state |-> ZeroBodyMessage]
      [] s.body = "Normal" /\ s.content_length = None /\ ~s.chunked
            /\ ~s.request ->
            [ret |-> "CantDetermineBodySize", state |-> ZeroBodyMessage]

\* The match of done_headers: its result and the state it leaves.
ResolveHeaders(s) ==
    CASE s.body = "Ignored" -> [ret |-> "OkFalse", state |-> IgnoredBody]
      [] s.body = "Denied" -> [ret |-> "OkFalse", state |-> ZeroBodyMessage]
      [] s.body = "Normal" /\ s.content_length # None /\ ~s.chunked ->
            [ret |-> "OkTrue", state |-> FixedSizeBody(s.content_length[1])]
      [] s.body = "Normal" /\ s.content_length = None /\ s.chunked ->
            [ret |-> "OkTrue", state |-> ChunkedBody]
      [] s.body = "Normal" /\ s.content_length # None /\ s.chunked ->
            [ret |-> "panic", state |-> s]
      [] s.body = "Normal" /\ s.content_length = None /\ ~s.chunked
            /\ s.request ->
            [ret |-> "OkFalse", state |-> ZeroBodyMessage]
      [] s.body = "Normal" /\ s.content_length = None /\ ~s.chunked
            /\ ~s.request ->
            [ret |-> "CantDetermineBodySize", state |-> s]

\* A done_headers that returns its error before it writes the blank line.
done_headers_NoTerminatorOnErr(s) ==
    IF s.tag = "Headers"
    THEN LET result == ResolveHeaders(s)
         IN  IF result.ret = "panic" THEN Panic(s)
             ELSE IF result.ret = "CantDetermineBodySize"
             THEN Outcome(result.ret, result.state, <<>>)
             ELSE Outcome(result.ret, result.state, CRLF)
    ELSE Panic(s)

done_headers(s) ==
    IF s.tag = "Headers"
    THEN LET result == ResolveHeaders(s)
         IN  IF result.ret = "panic" THEN Panic(s)
             ELSE Outcome(result.ret, result.state, CRLF)
    ELSE Panic(s)

\* A write_body that leaves the remaining counter as it found it.
write_body_NoDecrement(s, data) ==
    CASE s.tag = "ZeroBodyMessage" ->
            IF Len(data) # 0 THEN Panic(s) ELSE Outcome("unit", s, <<>>)
      [] s.tag = "FixedSizeBody" ->
            IF Len(data) > s.x THEN Panic(s)
            ELSE Outcome("unit", s, data)
      [] s.tag = "ChunkedBody" ->
            Outcome("unit", s, FmtHex(Len(data)) \o CRLF \o data)
      [] OTHER -> Panic(s)

\* A write_body that finishes a fixed-size message with its last byte.
write_body_AutoDone(s, data) ==
    CASE s.tag = "ZeroBodyMessage" ->
            IF Len(data) # 0 THEN Panic(s) ELSE Outcome("unit", s, <<>>)
      [] s.tag = "FixedSizeBody" ->
            IF Len(data) > s.x THEN Panic(s)
            ELSE IF Len(data) = s.x THEN Outcome("unit", Done, data)
            ELSE Outcome("unit", FixedSizeBody(s.x - Len(data)), data)
      [] s.tag = "ChunkedBody" ->
            Outcome("unit", s, FmtHex(Len(data)) \o CRLF \o data)
      [] OTHER -> Panic(s)

\* A write_body that writes to the buffer whatever state the message is in.
write_body_WritesAnywhere(s, data) ==
    CASE s.tag = "ZeroBodyMessage" -> Outcome("unit", s, data)
      [] s.tag = "FixedSizeBody" ->
            IF Len(data) > s.x THEN Panic(s)
            ELSE Outcome("unit", FixedSizeBody(s.x - Len(data)), data)
      [] s.tag = "ChunkedBody" ->
            Outcome("unit", s, FmtHex(Len(data)) \o CRLF \o data)
      [] s.tag = "Headers" -> Outcome("unit", s, data)
      [] OTHER -> Panic(s)

write_body(s, data) ==
    CASE s.tag = "ZeroBodyMessage" ->
            IF Len(data) # 0 THEN Panic(s) ELSE Outcome("unit", s, <<>>)
      [] s.tag = "FixedSizeBody" ->
            IF Len(data) > s.x THEN Panic(s)
            ELSE Outcome("unit", FixedSizeBody(s.x - Len(data)), data)
      [] s.tag = "ChunkedBody" ->
            Outcome("unit", s, FmtHex(Len(data)) \o CRLF \o data)
      [] OTHER -> Panic(s)

is_complete(s) == s.tag = "Done"

\* A done that writes the terminator chunk on every call made in Done.
done_TerminatorAgain(s) ==
    CASE s.tag = "ChunkedBody" -> Outcome("unit", Done, <<"0">> \o CRLF)
      [] s.tag = "FixedSizeBody" /\ s.x = 0 -> Outcome("unit", Done, <<>>)
      [] s.tag = "ZeroBodyMessage" -> Outcome("unit", Done, <<>>)
      [] s.tag = "IgnoredBody" -> Outcome("unit", Done, <<>>)
      [] s.tag = "Done" -> Outcome("unit", s, <<"0">> \o CRLF)
      [] OTHER -> Panic(s)

\* A done that has no arm for a fixed-size body.
done_NoFixedArm(s) ==
    CASE s.tag = "ChunkedBody" -> Outcome("unit", Done, <<"0">> \o CRLF)
      [] s.tag = "ZeroBodyMessage" -> Outcome("unit", Done, <<>>)
      [] s.tag = "IgnoredBody" -> Outcome("unit", Done, <<>>)
      [] s.tag = "Done" -> Outcome("unit", s, <<>>)
      [] OTHER -> Panic(s)

done(s) ==
    CASE s.tag = "ChunkedBody" -> Outcome("unit", Done, <<"0">> \o CRLF)
      [] s.tag = "FixedSizeBody" /\ s.x = 0 -> Outcome("unit", Done, <<>>)
      [] s.tag = "ZeroBodyMessage" -> Outcome("unit", Done, <<>>)
      [] s.tag = "IgnoredBody" -> Outcome("unit", Done, <<>>)
      [] s.tag = "Done" -> Outcome("unit", s, <<>>)
      [] OTHER -> Panic(s)

\* ---------------------------------------------------------------- actions
\* call records the latest call on the message: the method, its argument,
\* the MessageState and buffer it found, the value it returned, and how many
\* calls were made so far.  hist records the constructor and the state the
\* message started in, the arguments of request_line, the status code of the
\* response, the Headers state done_headers resolved, where the body starts
\* in the buffer, the slices write_body accepted, and what the most recent
\* done_headers returned.
NoCall ==
    [op |-> "new", arg |-> <<>>, ret |-> "unit", pre |-> RequestStart,
     prebuf |-> <<>>, n |-> 0]

NoHist ==
    [ctor |-> "with", start |-> RequestStart, line |-> <<>>, code |-> "",
     resolved |-> None, bodyStart |-> 0, written |-> <<>>, headersRet |-> ""]

\* Nothing is parsed while a message is written.
NoRaw == [status |-> "none"]
NoParsed == [ret |-> "none"]

\* A Message::simple that starts the message after the status line.
simple_Started(is_head) ==
    Headers(IF is_head THEN "Ignored" ELSE "Normal", FALSE, FALSE, None)

\* Message::simple: the state of the message it builds.
simple(is_head) ==
    ResponseStart("Http10", IF is_head THEN "Ignored" ELSE "Normal")

\* A message is built over an empty buffer by MessageState::with from a
\* start state, or by Message::simple.
Init ==
    /\ buf = <<>>
    /\ raw = NoRaw
    /\ parsed = NoParsed
    /\ \/ /\ state \in {RequestStart}
                       \cup {ResponseStart(v, b) : v \in Versions, b \in Bodies}
          /\ call = NoCall
          /\ hist = [NoHist EXCEPT !.start = state]
       \/ \E is_head \in BOOLEAN :
             /\ state = simple(is_head)
             /\ call = [NoCall EXCEPT !.op = "simple", !.arg = is_head]
             /\ hist = [NoHist EXCEPT !.ctor = "simple", !.start = state]

\* A panic ends the use of the message; the buffer and the state keep what
\* the call found.
Step(op, arg, o) ==
    /\ call.ret # "panic"
    /\ state' = o.state
    /\ buf' = buf \o o.out
    /\ call' = [op |-> op, arg |-> arg, ret |-> o.ret, pre |-> state,
                prebuf |-> buf, n |-> call.n + 1]
    /\ UNCHANGED <<raw, parsed>>

\* The calls of a run are counted up to MaxCalls.
Apply(op, arg, o) ==
    /\ call.n < MaxCalls
    /\ Step(op, arg, o)

CallResponseStatus ==
    \E code \in StatusCodes :
        LET o == response_status(state, code)
        IN  /\ Apply("response_status", code, o)
            /\ hist' = IF o.ret = "panic" THEN hist
                       ELSE [hist EXCEPT !.code = code]

CallRequestLine ==
    \E method \in Methods, uri \in Uris, version \in Versions :
        LET line == [method |-> method, uri |-> uri, version |-> version]
            o == request_line(state, method, uri, version)
        IN  /\ Apply("request_line", line, o)
            /\ hist' = IF o.ret = "panic" THEN hist
                       ELSE [hist EXCEPT !.line = Some(line)]

CallAddHeader ==
    \E h \in HeaderInputs :
        /\ Apply("add_header", h, add_header(state, h))
        /\ UNCHANGED hist

CallDoneHeaders ==
    LET o == done_headers(state)
    IN  /\ Apply("done_headers", <<>>, o)
        /\ hist' = IF o.ret \in {"OkTrue", "OkFalse"}
                   THEN [hist EXCEPT !.resolved = Some(state),
                                     !.bodyStart = Len(buf \o o.out),
                                     !.headersRet = o.ret]
                   ELSE IF o.ret = "panic" THEN hist
                   ELSE [hist EXCEPT !.headersRet = o.ret]

CallWriteBody ==
    \E data \in DataInputs :
        LET o == write_body(state, data)
        IN  /\ Apply("write_body", data, o)
            /\ hist' = IF o.ret = "panic" THEN hist
                       ELSE [hist EXCEPT !.written = Append(@, data)]

CallDone ==
    /\ Apply("done", <<>>, done(state))
    /\ UNCHANGED hist

Next ==
    \/ CallResponseStatus
    \/ CallRequestLine
    \/ CallAddHeader
    \/ CallDoneHeaders
    \/ CallWriteBody
    \/ CallDone

Spec == Init /\ [][Next]_vars

TypeOK ==
    /\ state.tag \in {"ResponseStart", "RequestStart", "Headers",
                      "ZeroBodyMessage", "IgnoredBody", "FixedSizeBody",
                      "ChunkedBody", "Done"}
    /\ call.n \in 0..MaxCalls

\* ------------------------------------------------------------ send_string
\* A response of declared length, sent the way the example's send_string
\* sends one, its body split into slices: status(Ok), add_header of a
\* ContentLength, done_headers, a write_body for each slice, done.  Each call
\* returns before the next is made.  A slice is non-empty and no longer than
\* the counter of FixedSizeBody; a message with no counter left, or with
\* none at all, gets no slice.
SendBytes == {"a", "b"}

Slices(x) == UNION {[1..k -> SendBytes] : k \in 1..x}

SendInit ==
    /\ Init
    /\ state.tag = "ResponseStart"

SendStatus ==
    /\ state.tag = "ResponseStart"
    /\ Step("response_status", "Ok", response_status(state, "Ok"))
    /\ hist' = [hist EXCEPT !.code = "Ok"]

SendContentLength ==
    /\ state.tag = "Headers"
    /\ call.op = "response_status"
    /\ \E n \in 0..MaxContentLength :
          Step("add_header", ContentLength(n),
               add_header(state, ContentLength(n)))
    /\ UNCHANGED hist

SendDoneHeaders ==
    /\ state.tag = "Headers"
    /\ call.op = "add_header"
    /\ LET o == done_headers(state)
       IN  /\ Step("done_headers", <<>>, o)
           /\ hist' = [hist EXCEPT !.resolved = Some(state),
                                   !.bodyStart = Len(buf \o o.out),
                                   !.headersRet = o.ret]

SendWriteBody ==
    /\ state.tag = "FixedSizeBody"
    /\ \E data \in Slices(state.x) :
          LET o == write_body(state, data)
          IN  /\ Step("write_body", data, o)
              /\ hist' = IF o.ret = "panic" THEN hist
                         ELSE [hist EXCEPT !.written = Append(@, data)]

SendDone ==
    /\ \/ state.tag = "FixedSizeBody" /\ state.x = 0
       \/ state.tag \in {"ZeroBodyMessage", "IgnoredBody"}
    /\ Step("done", <<>>, done(state))
    /\ UNCHANGED hist

SendNext ==
    \/ SendStatus
    \/ SendContentLength
    \/ SendDoneHeaders
    \/ SendWriteBody
    \/ SendDone

\* send_string runs to its end: a call that is due is made.
SpecSend == SendInit /\ [][SendNext]_vars /\ WF_vars(SendNext)

\* ------------------------------------------------------------ Head::parse
\* What httparse::Request::parse leaves for a slice of len bytes: its status
\* (TooManyHeaders is the error it gives when the head has more headers than
\* the array it was handed), the bytes it consumed, the minor version, and
\* what hyper's parsers make of the method token, of the path and of the raw
\* headers: Some(value), or None when they fail.
RawInputs ==
    {[status |-> "Complete", len |-> l, x |-> x, version |-> v,
      method |-> m, path |-> u, headers |-> h] :
        l \in 1..MaxDataLen, x \in 1..MaxDataLen, v \in 0..1,
        m \in {None, Some("Get"), Some("Head")},
        u \in {None, Some("AbsolutePath"), Some("Star")},
        h \in {None, Some("Headers")}}
    \cup {[status |-> st, len |-> l, x |-> 0, version |-> 0,
           method |-> None, path |-> None, headers |-> None] :
            st \in {"Partial", "Error", "TooManyHeaders"},
            l \in 0..MaxDataLen}

ParseOk(head) == [ret |-> "Ok", head |-> head]
ParseErr(status) == [ret |-> "Err", status |-> status]
ParsePanic == [ret |-> "panic"]

\* A version test that compares the minor version with 0.
HeadVersion_Swapped(minor) == IF minor = 0 THEN "Http11" ELSE "Http10"

\* The version field of the Head.
HeadVersion(minor) == IF minor = 1 THEN "Http11" ELSE "Http10"

\* The Head literal of the Complete arm: the fields in order, each try!
\* returning BadRequest on failure.
BuildHead(r) ==
    IF r.method = None THEN ParseErr("BadRequest")
    ELSE IF r.path = None THEN ParseErr("BadRequest")
    ELSE IF r.headers = None THEN ParseErr("BadRequest")
    ELSE ParseOk([https |-> FALSE, version |-> HeadVersion(r.version),
                  method |-> r.method[1], uri |-> r.path[1],
                  headers |-> r.headers[1]])

\* Head::parse on the tokenizer's outcome r.
parse(r) ==
    CASE r.status = "Complete" ->
            IF r.x # r.len THEN ParsePanic ELSE BuildHead(r)
      [] r.status = "Partial" -> ParsePanic
      [] OTHER -> ParseErr("BadRequest")

ParseInit ==
    /\ raw \in {r \in RawInputs : r.x <= r.len}
    /\ parsed = NoParsed
    /\ state = RequestStart
    /\ buf = <<>>
    /\ call = NoCall
    /\ hist = NoHist

CallParse ==
    /\ raw.status # "none"
    /\ parsed.ret = "none"
    /\ parsed' = parse(raw)
    /\ UNCHANGED <<raw, state, buf, call, hist>>

ParseNext == CallParse

SpecParse == ParseInit /\ [][ParseNext]_vars

\* ----------------------------------------------------------------- claims
HeaderErrors ==
    {"DuplicateContentLength", "DuplicateTransferEncoding",
     "TransferEncodingAfterContentLength",
     "ContentLengthAfterTransferEncoding", "UnknownTransferEncoding",
     "CantDetermineBodySize"}

\* The state in which each of the four head-building methods is legal.
LegalTag(op) ==
    CASE op = "response_status" -> "ResponseStart"
      [] op = "request_line" -> "RequestStart"
      [] op \in {"add_header", "done_headers"} -> "Headers"

\* C1: response_status returns only from ResponseStart, request_line only
\* from RequestStart, add_header and done_headers only from Headers; called
\* in any other state each of them panics, returns no HeaderError, and leaves
\* the state and the buffer as found.
C1_HeadCallsLegalOnlyInTheirState ==
    call.op \in {"response_status", "request_line", "add_header",
                 "done_headers"}
    => /\ (call.ret # "panic") <=> (call.pre.tag = LegalTag(call.op))
       /\ call.pre.tag # LegalTag(call.op)
          => /\ call.ret \notin HeaderErrors
             /\ state = call.pre
             /\ buf = call.prebuf

\* add_header called after done_headers resolved the framing to a fixed body.
C1_Witness ==
    /\ call.op = "add_header"
    /\ call.pre.tag = "FixedSizeBody"
    /\ call.ret = "panic"

\* C2: done_headers called in Headers resolves per the truth table, and
\* returns Ok(true) exactly when it leaves FixedSizeBody or ChunkedBody.
C2_DoneHeadersTruthTable ==
    (call.op = "done_headers" /\ call.pre.tag = "Headers")
    => LET p == call.pre
       IN  /\ p.body = "Ignored"
              => (state = IgnoredBody /\ call.ret = "OkFalse")
           /\ p.body = "Denied"
              => (state = ZeroBodyMessage /\ call.ret = "OkFalse")
           /\ (p.body = "Normal" /\ p.content_length # None /\ ~p.chunked)
              => /\ state = FixedSizeBody(p.content_length[1])
                 /\ call.ret = "OkTrue"
           /\ (p.body = "Normal" /\ p.content_length = None /\ p.chunked)
              => (state = ChunkedBody /\ call.ret = "OkTrue")
           /\ (p.body = "Normal" /\ p.content_length = None /\ ~p.chunked
                 /\ p.request)
              => (state = ZeroBodyMessage /\ call.ret = "OkFalse")
           /\ (p.body = "Normal" /\ p.content_length = None /\ ~p.chunked
                 /\ ~p.request)
              => call.ret = "CantDetermineBodySize"
           /\ call.ret \in {"OkTrue", "OkFalse", "CantDetermineBodySize"}
           /\ (call.ret = "OkTrue")
              <=> (state.tag \in {"FixedSizeBody", "ChunkedBody"})

\* A request with no declared framing resolved to ZeroBodyMessage.
C2_Witness ==
    /\ call.op = "done_headers"
    /\ call.pre.tag = "Headers"
    /\ call.pre.request
    /\ call.pre.content_length = None
    /\ ~call.pre.chunked
    /\ state = ZeroBodyMessage
    /\ call.ret = "OkFalse"

\* The result the add_header table gives for header h in Headers state p.
ExpectedAddHeader(p, h) ==
    LET isLength == h.kind = "ContentLength"
        isEncoding == h.kind = "TransferEncoding"
        isChunked == isEncoding /\ h.encodings = <<"Chunked">>
    IN  CASE isLength /\ p.chunked -> "ContentLengthAfterTransferEncoding"
          [] isLength /\ ~p.chunked /\ p.content_length # None ->
                "DuplicateContentLength"
          [] isEncoding /\ ~isChunked -> "UnknownTransferEncoding"
          [] isChunked /\ p.chunked -> "DuplicateTransferEncoding"
          [] isChunked /\ ~p.chunked /\ p.content_length # None ->
                "TransferEncodingAfterContentLength"
          [] OTHER -> "Ok"

RECURSIVE CountCRLF(_)
CountCRLF(b) ==
    IF Len(b) < 2 THEN 0
    ELSE (IF b[1] = "\r" /\ b[2] = "\n" THEN 1 ELSE 0) + CountCRLF(Tail(b))

\* The bytes the latest call appended to the buffer.
Appended == SubSeq(buf, Len(call.prebuf) + 1, Len(buf))

\* C4: an add_header that returns a HeaderError leaves the buffer and the
\* Headers state as it found them; an add_header that returns Ok appends
\* exactly one header line to the buffer.
C4_AddHeaderFrame ==
    (call.op = "add_header" /\ call.pre.tag = "Headers")
    => /\ Len(buf) >= Len(call.prebuf)
       /\ SubSeq(buf, 1, Len(call.prebuf)) = call.prebuf
       /\ call.ret \in HeaderErrors
          => (buf = call.prebuf /\ state = call.pre)
       /\ call.ret = "Ok"
          => /\ Len(Appended) > 2
             /\ CountCRLF(Appended) = 1
             /\ SubSeq(Appended, Len(Appended) - 1, Len(Appended)) = CRLF
             /\ \E i \in 1..(Len(Appended) - 3) :
                   /\ Appended[i] = ":"
                   /\ Appended[i + 1] = " "

\* A second Content-Length rejected while the first one is recorded.
C4_Witness ==
    /\ call.op = "add_header"
    /\ call.ret = "DuplicateContentLength"
    /\ call.arg.ln # call.pre.content_length[1]
    /\ state.tag = "Headers"
    /\ state.content_length = call.pre.content_length

\* The bytes written to the buffer after done_headers resolved the headers.
BodyBytes == SubSeq(buf, hist.bodyStart + 1, Len(buf))

\* done_headers resolved the headers to a fixed-length body.
FixedPath ==
    /\ hist.resolved # None
    /\ hist.resolved[1].body = "Normal"
    /\ hist.resolved[1].content_length # None

\* done_headers resolved the headers to a chunked body.
ChunkedPath ==
    /\ hist.resolved # None
    /\ hist.resolved[1].body = "Normal"
    /\ hist.resolved[1].chunked

Declared == hist.resolved[1].content_length[1]

\* C5: in the fixed-length path the body bytes written so far plus the
\* remaining counter equal the declared length n (n = 0 included); a
\* write_body longer than the remaining counter panics and appends nothing;
\* done returns from FixedSizeBody exactly when the counter is 0; a message
\* that reaches Done through this path carries exactly n body bytes.
C5_FixedLengthAccounting ==
    /\ (FixedPath /\ state.tag = "FixedSizeBody")
       => Len(BodyBytes) + state.x = Declared
    /\ (call.op = "write_body" /\ call.pre.tag = "FixedSizeBody")
       => IF Len(call.arg) > call.pre.x
          THEN call.ret = "panic" /\ buf = call.prebuf /\ state = call.pre
          ELSE call.ret = "unit" /\ buf = call.prebuf \o call.arg
    /\ (call.op = "done" /\ call.pre.tag = "FixedSizeBody")
       => /\ (call.ret # "panic") <=> (call.pre.x = 0)
          /\ (call.ret # "panic") => state = Done
          /\ (call.ret = "panic") => state = call.pre
          /\ buf = call.prebuf
    /\ (FixedPath /\ state.tag = "Done") => Len(BodyBytes) = Declared

\* A fixed-length message finished after two non-empty writes.
C5_Witness ==
    /\ FixedPath
    /\ state.tag = "Done"
    /\ Declared = 2
    /\ Len(hist.written) = 2
    /\ \A i \in 1..2 : Len(hist.written[i]) = 1

\* Value of a hexadecimal digit, -1 for any other byte.
HexDigitValue(c) ==
    IF \E i \in 1..16 : Digits[i] = c
    THEN (CHOOSE i \in 1..16 : Digits[i] = c) - 1
    ELSE -1

\* Number of leading hexadecimal digits of b.
RECURSIVE HexPrefixLen(_)
HexPrefixLen(b) ==
    IF b = <<>> \/ HexDigitValue(Head(b)) < 0 THEN 0
    ELSE 1 + HexPrefixLen(Tail(b))

\* Value of a sequence of hexadecimal digits.
RECURSIVE HexValue(_)
HexValue(ds) ==
    IF ds = <<>> THEN 0
    ELSE 16 * HexValue(SubSeq(ds, 1, Len(ds) - 1))
         + HexDigitValue(ds[Len(ds)])

\* Re-tokenizes b as chunk headers '<hex length>\r\n' each followed by that
\* many bytes: the chunks in order, and whether b was such a sequence.
RECURSIVE ParseChunks(_)
ParseChunks(b) ==
    IF b = <<>> THEN [ok |-> TRUE, chunks |-> <<>>]
    ELSE LET k == HexPrefixLen(b)
             n == HexValue(SubSeq(b, 1, k))
         IN  IF \/ k = 0
                \/ Len(b) < k + 2 + n
                \/ SubSeq(b, k + 1, k + 2) # CRLF
             THEN [ok |-> FALSE, chunks |-> <<>>]
             ELSE LET rest == ParseChunks(SubSeq(b, k + 3 + n, Len(b)))
                  IN  [ok |-> rest.ok,
                       chunks |-> <<SubSeq(b, k + 3, k + 2 + n)>>
                                  \o rest.chunks]

\* C6: the bytes a chunked message holds after its header terminator
\* re-tokenize to the slices passed to write_body, in order, empty slices
\* included, followed after done by one zero-length chunk that done wrote.
C6_ChunkedRoundTrip ==
    /\ (ChunkedPath /\ state.tag = "ChunkedBody")
       => ParseChunks(BodyBytes) = [ok |-> TRUE, chunks |-> hist.written]
    /\ (ChunkedPath /\ state.tag = "Done")
       => ParseChunks(BodyBytes)
          = [ok |-> TRUE, chunks |-> hist.written \o << <<>> >>]
    /\ (call.op = "done" /\ call.pre.tag = "ChunkedBody")
       => buf = call.prebuf \o <<"0">> \o CRLF
    /\ (call.op = "write_body" /\ call.pre.tag = "ChunkedBody")
       => /\ call.ret = "unit"
          /\ ParseChunks(Appended) = [ok |-> TRUE, chunks |-> <<call.arg>>]

\* A chunked message finished after an empty slice and a seventeen-byte one.
C6_Witness ==
    /\ ChunkedPath
    /\ state.tag = "Done"
    /\ Len(hist.written) = 2
    /\ hist.written[1] = <<>>
    /\ Len(hist.written[2]) = 17

\* C7: a response started with status 204 or 304 carries no body bytes;
\* once done_headers has resolved it, write_body with empty data returns and
\* appends nothing, and write_body with non-empty data panics.
C7_NoBodyFor204And304 ==
    (hist.code \in {"NoContent", "NotModified"} /\ hist.resolved # None)
    => /\ BodyBytes = <<>>
       /\ (call.op = "write_body"
             /\ call.pre.tag \in {"ZeroBodyMessage", "IgnoredBody"})
          => IF call.arg = <<>>
             THEN call.ret = "unit" /\ buf = call.prebuf
             ELSE call.ret = "panic"

\* C8: in IgnoredBody every write_body call, whatever its data, returns,
\* leaves the state IgnoredBody and appends nothing to the buffer.
C8_IgnoredBodyWritesAreIgnored ==
    (call.op = "write_body" /\ call.pre.tag = "IgnoredBody")
    => /\ call.ret = "unit"
       /\ state = IgnoredBody
       /\ buf = call.prebuf

\* Bytes write_body puts in the buffer for the slices ws of a chunked body.
RECURSIVE ChunkedLen(_)
ChunkedLen(ws) ==
    IF ws = <<>> THEN 0
    ELSE Len(FmtHex(Len(Head(ws)))) + 2 + Len(Head(ws)) + ChunkedLen(Tail(ws))

\* C9: done called in Done returns, leaves the state Done and the buffer as
\* found; a finished chunked message holds, after the chunks of its slices,
\* the three bytes of one terminator chunk, however often done was called.
C9_DoneIdempotent ==
    /\ (call.op = "done" /\ call.pre.tag = "Done")
       => (call.ret = "unit" /\ state = Done /\ buf = call.prebuf)
    /\ (ChunkedPath /\ state.tag = "Done")
       => /\ Len(BodyBytes) = ChunkedLen(hist.written) + 3
          /\ SubSeq(buf, Len(buf) - 2, Len(buf)) = <<"0">> \o CRLF

\* done called again on a finished chunked message.
C9_Witness ==
    /\ ChunkedPath
    /\ call.op = "done"
    /\ call.pre.tag = "Done"
    /\ state.tag = "Done"
    /\ Len(hist.written) > 0

\* The disposition the response_status rule gives for a status and an
\* initial disposition.
ExpectedBody(code, body) ==
    CASE code \in {"SwitchingProtocols", "NoContent"} -> "Denied"
      [] code = "NotModified" /\ body = "Normal" -> "Ignored"
      [] OTHER -> body

\* C10: response_status from ResponseStart leaves Headers with request and
\* chunked false, no content_length, and the disposition Denied for 101 and
\* 204 whatever the initial one, Ignored for 304 on an initial Normal, else
\* the initial one; request_line leaves Headers with disposition Normal and
\* request true.
C10_StartLineDisposition ==
    /\ (call.op = "response_status" /\ call.pre.tag = "ResponseStart")
       => state = [tag |-> "Headers",
                   body |-> ExpectedBody(call.arg, call.pre.body),
                   chunked |-> FALSE, request |-> FALSE,
                   content_length |-> <<>>]
    /\ (call.op = "request_line" /\ call.pre.tag = "RequestStart")
       => state = [tag |-> "Headers", body |-> "Normal", chunked |-> FALSE,
                   request |-> TRUE, content_length |-> <<>>]

\* A no-content status overriding an initial Ignored disposition.
C10_Witness ==
    /\ call.op = "response_status"
    /\ call.pre.tag = "ResponseStart"
    /\ call.pre.body = "Ignored"
    /\ call.arg = "NoContent"
    /\ state.tag = "Headers"
    /\ state.body = "Denied"

\* C11 as stated: Message::simple leaves the message where response_status
\* would, in Headers with the disposition Ignored for a HEAD request and
\* Normal otherwise, so that is_started() is true and add_header and
\* done_headers return without any response_status call.
C11_SimpleSkipsStatusLine ==
    hist.ctor = "simple"
    => /\ call.op = "simple"
          => /\ state.tag = "Headers"
             /\ state.body = (IF call.arg THEN "Ignored" ELSE "Normal")
             /\ state.tag \notin {"RequestStart", "ResponseStart"}
       /\ (call.n = 1 /\ call.op \in {"add_header", "done_headers"})
          => call.ret # "panic"

\* C11, amended: Message::simple builds a message in ResponseStart with
\* version 1.0 and the disposition Ignored for a HEAD request and Normal
\* otherwise; nothing is written and is_started() is false; add_header and
\* done_headers called first panic, and response_status called first writes
\* an HTTP/1.0 status line and leaves Headers.
C11_SimpleIsResponseStart ==
    hist.ctor = "simple"
    => /\ hist.start.tag = "ResponseStart"
       /\ hist.start.version = "Http10"
       /\ call.op = "simple"
          => /\ state = hist.start
             /\ state.body = (IF call.arg THEN "Ignored" ELSE "Normal")
             /\ buf = <<>>
             /\ ~is_started(state)
       /\ (call.n = 1 /\ call.op \in {"add_header", "done_headers"})
          => (call.ret = "panic" /\ state = hist.start /\ buf = <<>>)
       /\ (call.n = 1 /\ call.op = "response_status")
          => /\ call.ret = "unit"
             /\ state.tag = "Headers"
             /\ is_started(state)
             /\ SubSeq(buf, 1, 9)
                = <<"H", "T", "T", "P", "/", "1", ".", "0", " ">>

\* add_header called first on a message built by Message::simple.
C11_Witness ==
    /\ hist.ctor = "simple"
    /\ call.n = 1
    /\ call.op = "add_header"
    /\ call.ret = "panic"

\* C12: Head::parse returns a value for every outcome of the tokenizer, and
\* for an incomplete head, a malformed one and one with too many headers the
\* value is Err(BadRequest): never a Head, never a panic.
C12_ParseNeverAborts ==
    parsed.ret # "none"
    => /\ (raw.status = "Complete" /\ raw.x = raw.len)
          => parsed.ret \in {"Ok", "Err"}
       /\ raw.status \in {"Partial", "Error", "TooManyHeaders"}
          => parsed = [ret |-> "Err", status |-> "BadRequest"]

\* C13: on a complete head that consumes the whole slice Head::parse returns
\* Err(BadRequest) when the method, the path or the headers fail to parse,
\* and otherwise a Head with every field set: version Http11 iff the minor
\* version is 1 and Http10 otherwise, https false, and the parsed method,
\* uri and headers.
C13_CompleteHeadOrBadRequest ==
    (parsed.ret # "none" /\ raw.status = "Complete" /\ raw.x = raw.len)
    => IF raw.method = <<>> \/ raw.path = <<>> \/ raw.headers = <<>>
       THEN parsed = [ret |-> "Err", status |-> "BadRequest"]
       ELSE /\ parsed.ret = "Ok"
            /\ DOMAIN parsed.head
               = {"https", "version", "method", "uri", "headers"}
            /\ (parsed.head.version = "Http11") <=> (raw.version = 1)
            /\ (parsed.head.version = "Http10") <=> (raw.version # 1)
            /\ parsed.head.https = FALSE
            /\ parsed.head.method = raw.method[1]
            /\ parsed.head.uri = raw.path[1]
            /\ parsed.head.headers = raw.headers[1]

\* A complete HTTP/1.1 head parsed into a Head.
C13_Witness ==
    /\ raw.status = "Complete"
    /\ raw.x = raw.len
    /\ raw.version = 1
    /\ parsed.ret = "Ok"
    /\ parsed.head.version = "Http11"

\* C14: request_line followed at once by done_headers and done: done_headers
\* returns Ok(false) and leaves ZeroBodyMessage, done leaves Done, and the
\* buffer holds the request line and one blank line,
\* '<Method> <target> <Version>\r\n\r\n', with no body byte after it.
C14_MinimalRequest ==
    /\ (hist.line # <<>> /\ call.n = 2 /\ call.op = "done_headers")
       => (call.ret = "OkFalse" /\ state = ZeroBodyMessage)
    /\ (hist.line # <<>> /\ call.n = 3 /\ call.op = "done"
          /\ call.pre.tag = "ZeroBodyMessage")
       => LET l == hist.line[1]
          IN  /\ call.ret = "unit"
              /\ state = Done
              /\ buf = FmtMethod(l.method) \o <<" ">> \o l.uri \o <<" ">>
                       \o FmtVersion(l.version) \o CRLF \o CRLF
              /\ (l.method = "Get" /\ l.uri = <<"/">> /\ l.version = "Http10")
                 => buf = <<"G", "E", "T", " ", "/", " ", "H", "T", "T", "P",
                            "/", "1", ".", "0", "\r", "\n", "\r", "\n">>
              /\ hist.bodyStart = Len(buf)

\* The request 'GET / HTTP/1.0' finished without headers or body.
C14_Witness ==
    /\ hist.line = <<[method |-> "Get", uri |-> <<"/">>, version |-> "Http10"]>>
    /\ call.n = 3
    /\ call.op = "done"
    /\ state = Done

\* C15: done_headers returns Ok(false) for every response whose status is
\* 101, 204 or 304 and for every response to a HEAD request (started with
\* the disposition Ignored), whatever headers were added before; a Normal
\* message with Content-Length: 0 returns Ok(true).
C15_NoBodyExpected ==
    (call.op = "done_headers" /\ call.pre.tag = "Headers")
    => /\ (hist.code \in {"SwitchingProtocols", "NoContent", "NotModified"}
             \/ (hist.code # "" /\ hist.start.body = "Ignored"))
          => (call.ret = "OkFalse"
                /\ state.tag \in {"ZeroBodyMessage", "IgnoredBody"})
       /\ (call.pre.body = "Normal" /\ call.pre.content_length = <<0>>)
          => (call.ret = "OkTrue" /\ state = FixedSizeBody(0))

\* The response to a HEAD request resolved after a Content-Length of 2.
C15_Witness ==
    /\ call.op = "done_headers"
    /\ hist.code = "Ok"
    /\ hist.start.body = "Ignored"
    /\ call.pre.content_length = <<2>>
    /\ call.ret = "OkFalse"

\* C16: every done_headers call made in Headers appends exactly the two
\* bytes of one blank line to the buffer, whether it returns Ok(true),
\* Ok(false) or Err(CantDetermineBodySize).
C16_TerminatorAlwaysWritten ==
    (call.op = "done_headers" /\ call.pre.tag = "Headers")
    => /\ call.ret \in {"OkTrue", "OkFalse", "CantDetermineBodySize"}
       /\ buf = call.prebuf \o <<"\r", "\n">>

\* A done_headers that returned the error and wrote the blank line.
C16_Witness ==
    /\ call.op = "done_headers"
    /\ call.ret = "CantDetermineBodySize"
    /\ Len(buf) = Len(call.prebuf) + 2

\* The start line and the header section: the buffer up to where the body
\* starts, or all of it while the headers are not resolved.
HeadBytes ==
    IF hist.resolved = <<>> THEN buf ELSE SubSeq(buf, 1, hist.bodyStart)

\* C17: in every reachable state the header section is well-formed: the
\* bare '\r\n' that terminates it is written at most once and nothing of
\* the head follows it, so a blank line is found in the head only at its
\* very end.
C17_HeaderSectionWellFormed ==
    \A i \in 1..(Len(HeadBytes) - 3) :
        SubSeq(HeadBytes, i, i + 3) = <<"\r", "\n", "\r", "\n">>
        => i + 3 = Len(HeadBytes)

\* C18: is_started() is false exactly in RequestStart and ResponseStart and
\* a call never makes it false again; is_complete() is true exactly in Done,
\* becomes true only by a done call that returns, and a call never makes it
\* false again.
C18_StartedAndCompleteMonotone ==
    [][ /\ is_started(state)
           <=> (state.tag \notin {"RequestStart", "ResponseStart"})
        /\ is_started(state')
           <=> (state'.tag \notin {"RequestStart", "ResponseStart"})
        /\ is_complete(state) <=> (state.tag = "Done")
        /\ is_complete(state') <=> (state'.tag = "Done")
        /\ is_started(state) => is_started(state')
        /\ is_complete(state) => is_complete(state')
        /\ (~is_started(state) /\ is_started(state'))
           => /\ call'.op \in {"response_status", "request_line"}
              /\ Len(buf) = 0
              /\ Len(buf') > 0
        /\ (~is_complete(state) /\ is_complete(state'))
           => (call'.op = "done" /\ call'.ret = "unit")
      ]_vars

\* A message that done has just completed.
C18_Witness ==
    /\ call.op = "done"
    /\ call.ret = "unit"
    /\ ~is_complete(call.pre)
    /\ is_started(call.pre)
    /\ is_complete(state)

\* C19: in Headers a content_length and the chunked flag are never recorded
\* together, whatever headers were accepted or rejected, so done_headers
\* never reaches its unreachable arm.
C19_OneFramingMode ==
    /\ state.tag = "Headers"
       => ~(state.content_length # <<>> /\ state.chunked)
    /\ (call.op = "done_headers" /\ call.pre.tag = "Headers")
       => call.ret # "panic"

\* A Content-Length rejected on a message that is already chunked.
C19_Witness ==
    /\ state.tag = "Headers"
    /\ state.chunked
    /\ call.op = "add_header"
    /\ call.arg.kind = "ContentLength"
    /\ call.ret = "ContentLengthAfterTransferEncoding"

\* The buffer b ends with a blank line: in Headers, the trace of a
\* done_headers that returned Err(CantDetermineBodySize).
EndsWithBlankLine(b) ==
    /\ Len(b) >= 4
    /\ SubSeq(b, Len(b) - 3, Len(b)) = <<"\r", "\n", "\r", "\n">>

\* C20: a done_headers that returns Err(CantDetermineBodySize) leaves the
\* message in Headers with its fields as found; after it write_body and
\* done still panic, add_header still returns Ok or a HeaderError, and
\* done_headers still returns.
C20_ErrKeepsHeaders ==
    /\ (call.op = "done_headers" /\ call.ret = "CantDetermineBodySize")
       => (call.pre.tag = "Headers" /\ state = call.pre)
    /\ (call.pre.tag = "Headers" /\ EndsWithBlankLine(call.prebuf))
       => /\ call.op \in {"write_body", "done"}
             => (call.ret = "panic" /\ state = call.pre)
          /\ call.op = "add_header"
             => call.ret \in {"Ok"} \cup HeaderErrors
          /\ call.op = "done_headers"
             => call.ret \in {"OkTrue", "OkFalse", "CantDetermineBodySize"}

\* A Content-Length accepted after done_headers returned the error, and the
\* headers then resolved by a second done_headers.
C20_Witness ==
    /\ hist.code = "Ok"
    /\ call.op = "done_headers"
    /\ call.ret = "OkTrue"
    /\ \E i \in 1..(Len(call.prebuf) - 4) :
          SubSeq(call.prebuf, i, i + 3) = <<"\r", "\n", "\r", "\n">>

C21_WitnessFatal ==
    /\ call.op = "write_body"
    /\ call.pre.tag = "Headers"
    /\ call.ret = "panic"
    /\ call.arg # <<>>
    /\ hist.headersRet = "CantDetermineBodySize"

\* -------------------------------------------------------------------- C22
\* The number of bytes in a sequence of slices.
RECURSIVE TotalLen(_)
TotalLen(ws) ==
    IF ws = <<>> THEN 0 ELSE Len(Head(ws)) + TotalLen(Tail(ws))

C22_WitnessSingleWrite ==
    /\ state = Done
    /\ call.op = "done"
    /\ FixedPath
    /\ Declared = 2
    /\ hist.written = <<BodyBytes>>

====
